---- MODULE Spec2Model ----
(***************************************************************************)
(* A model of ffindex_py (src/src/ffindex_py/main.py).                     *)
(*                                                                         *)
(* run_apply is modelled as a state machine: the main thread (validation,  *)
(* reading the source index, submitting one task per record to a           *)
(* ThreadPoolExecutor, opening the outputs, the as_completed consumption   *)
(* loop, the final assertion, the executor shutdown) runs interleaved with *)
(* the pool's worker threads, which execute apply_to_record.               *)
(* run_reindex, run_get and run_from_fasta are sequential: each is a loop  *)
(* over the bytes or lines of its input, modelled one iteration a step,    *)
(* with a specification of its own (SpecReindex, SpecGet, SpecFasta).      *)
(*                                                                         *)
(* Bytes are naturals 0..255, byte strings are sequences of bytes, a name  *)
(* is the sequence of the code points of its characters.                   *)
(***************************************************************************)
EXTENDS Integers, Sequences, FiniteSets, TLC

\* ------------------------------------------------------------------ bounds

\* largest number of records in the source index
MaxRec == 3
\* largest pool size given with -j
MaxJobs == 2

\* ------------------------------------------------------------ the inputs

\* the sentinel byte that ends every record of a data file
Sentinel == 0

\* the names a source index is made of: "a", "ab", "b", "c" as code points
AllNames == <<<<97>>, <<97, 98>>, <<98>>, <<99>>>>
NameSet == {AllNames[i] : i \in 1..(IF MaxRec < Len(AllNames) THEN MaxRec ELSE Len(AllNames))}

\* what the external program may write on its output stream
ProgOutputs == {<<>>, <<0, 7>>}

\* what subprocess reports as returncode: 0, an exit status > 0, or -N for a
\* program ended by signal N
ReturnCodes == {-9, 0, 1}

IndexOrders == {"keep", "sort", "data"}
OnErrors == {"exit", "ignore", "blank", "original"}

\* ----------------------------------------------------------- pure helpers

\* str comparison of Python: lexicographic by code point
RECURSIVE StrLess(_, _)
StrLess(a, b) ==
    IF b = <<>> THEN FALSE
    ELSE IF a = <<>> THEN TRUE
    ELSE IF Head(a) # Head(b) THEN Head(a) < Head(b)
    ELSE StrLess(Tail(a), Tail(b))

\* s with x inserted before the first element greater than x
RECURSIVE Insert(_, _)
Insert(x, s) ==
    IF s = <<>> THEN <<x>>
    ELSE IF StrLess(x, Head(s)) THEN <<x>> \o s
    ELSE <<Head(s)>> \o Insert(x, Tail(s))

\* names.sort()
RECURSIVE SortNames(_)
SortNames(s) ==
    IF s = <<>> THEN <<>> ELSE Insert(Head(s), SortNames(Tail(s)))

\* f.seek(start); f.read(n) on a file holding data
ReadAt(data, start, n) ==
    SubSeq(data, start + 1, IF start + n <= Len(data) THEN start + n ELSE Len(data))

\* the sequences without repetition over S of length n
RECURSIVE Arrangements(_, _)
Arrangements(S, n) ==
    IF n = 0 THEN {<<>>}
    ELSE UNION {{<<x>> \o t : t \in Arrangements(S \ {x}, n - 1)} : x \in S}

\* the payload stored under a name in the source store
SrcPayload(name) == name \o <<10>>

\* the data file of a store holding the records named by ns, in that order
RECURSIVE StoreData(_)
StoreData(ns) ==
    IF ns = <<>> THEN <<>>
    ELSE SrcPayload(Head(ns)) \o <<Sentinel>> \o StoreData(Tail(ns))

\* its index: one (name, start, length) per record
RECURSIVE StoreIndex(_, _)
StoreIndex(ns, off) ==
    IF ns = <<>> THEN <<>>
    ELSE <<[name |-> Head(ns), start |-> off, length |-> Len(SrcPayload(Head(ns))) + 1]>>
         \o StoreIndex(Tail(ns), off + Len(SrcPayload(Head(ns))) + 1)

\* ------------------------------------------------- the index line format

\* str(n) of a number n >= 0: its decimal digits, as code points
RECURSIVE FormatInt(_)
FormatInt(n) ==
    IF n < 10 THEN <<48 + n>> ELSE FormatInt(n \div 10) \o <<48 + (n % 10)>>

\* the texts int() takes, as far as the model has them: one decimal digit or more
IsIntText(f) == f # <<>> /\ \A i \in 1..Len(f) : f[i] \in 48..57

\* int(f) of such a text
RECURSIVE ParseInt(_)
ParseInt(f) ==
    IF f = <<>> THEN 0 ELSE 10 * ParseInt(SubSeq(f, 1, Len(f) - 1)) + (f[Len(f)] - 48)

\* f"{name}\t{start}\t{length}\n": a line is the sequence of its tab-separated fields
FormatLine(name, start, length) == <<name, FormatInt(start), FormatInt(length)>>

\* the i-th field of a line, empty if it has none
Field(fields, i) == IF i <= Len(fields) THEN fields[i] ELSE <<>>

\* a slip in lines 58-59: a line is taken whatever it holds
MalformedNever(fields) == FALSE

\* lines 58-59: the lines on which read_ffindex raises ValueError: not three
\* fields, or a start or length that int() refuses
Malformed(fields) ==
    \/ Len(fields) # 3
    \/ ~IsIntText(fields[2])
    \/ ~IsIntText(fields[3])

\* lines 58-59: the ValueError of the unpacking or of int(), on line k of the file
ParseError(k) == [line |-> k]

\* lines 57-59: what read_ffindex yields for a line
ParseLine(fields) ==
    [name |-> Field(fields, 1),
     start |-> ParseInt(Field(fields, 2)),
     length |-> ParseInt(Field(fields, 3))]

\* lines 254-256: the records read before read_ffindex raises, all if it does not
RECURSIVE ParsedLines(_)
ParsedLines(text) ==
    IF text = <<>> \/ Malformed(Head(text)) THEN <<>>
    ELSE <<ParseLine(Head(text))>> \o ParsedLines(Tail(text))

\* the text of an index file holding the records recs
FormatLines(recs) == [i \in 1..Len(recs) |-> FormatLine(recs[i].name, recs[i].start, recs[i].length)]

\* that text with line k cut after its second field, or with a length that is
\* no number
Damaged(text, k, kind) ==
    [i \in 1..Len(text) |->
        IF i # k THEN text[i]
        ELSE IF kind = "fields" THEN SubSeq(text[i], 1, 2)
        ELSE <<text[i][1], text[i][2], <<120>>>>]

DamageKinds == {"fields", "nonint"}

\* ------------------------------------------------- apply: pure parts

\* a slip in line 244: the policy pair tested is not the documented one
IncompatibleSortIgnore(order, err) == order = "sort" /\ err = "ignore"

\* line 244: the configuration run_apply refuses
Incompatible(order, err) == order = "keep" /\ err = "ignore"

\* lines 252-258: the order in which the records are submitted and, under
\* keep and sort, in which their index lines are to be written
TargetNames(ns, order) == IF order = "sort" THEN SortNames(ns) ELSE ns

\* lines 189 and 269: the results handled as failures
IsFailure(returncode) == returncode > 0

\* a slip in lines 271-272: the failure is reported but never raised
IsFatalNever(returncode, err) == FALSE

\* lines 269-272: the results that end the run with ValueError
IsFatal(returncode, err) == IsFailure(returncode) /\ err = "exit"

\* lines 275-276: the results that are passed over
IsDropped(returncode, err) == IsFailure(returncode) /\ err = "ignore"

\* a slip in lines 189-190: the output of the failed attempt is kept
DataOutKeepsAttempt(returncode, out, record, on_error_original) == out

\* lines 189-190: the payload apply_to_record returns
DataOut(returncode, out, record, on_error_original) ==
    IF IsFailure(returncode)
    THEN (IF on_error_original THEN record ELSE <<>>)
    ELSE out

\* a slip in line 283: the sentinel is not counted
RecordLengthNoSentinel(data_out) == Len(data_out)

\* line 283: the length written in the index line of a payload
RecordLength(data_out) == Len(data_out) + 1

\* a slip in line 285: the line of the record is not kept
BufPutForget(buf, name, off, len) == buf

\* line 285: index_buf[name] = offset, length
BufPut(buf, name, off, len) ==
    [k \in (DOMAIN buf) \cup {name} |-> IF k = name THEN <<off, len>> ELSE buf[k]]

\* a slip in lines 286-289: whatever is in index_buf is written at once, the
\* head of names is not waited for
RECURSIVE DrainUnordered(_, _, _)
DrainUnordered(nm, buf, lines) ==
    IF DOMAIN buf # {}
    THEN LET k == CHOOSE x \in DOMAIN buf : TRUE IN
         DrainUnordered(SelectSeq(nm, LAMBDA x : x # k),
                        [j \in (DOMAIN buf) \ {k} |-> buf[j]],
                        Append(lines, [name |-> k, start |-> buf[k][1], length |-> buf[k][2]]))
    ELSE [names |-> nm, index_buf |-> buf, outindex |-> lines]

\* a slip in lines 286-289: nothing is ever taken out of index_buf
DrainNever(nm, buf, lines) == [names |-> nm, index_buf |-> buf, outindex |-> lines]

\* lines 286-289: while names and names[0] in index_buf: pop both, write the line
RECURSIVE Drain(_, _, _)
Drain(nm, buf, lines) ==
    IF nm # <<>> /\ Head(nm) \in DOMAIN buf
    THEN Drain(Tail(nm),
               [k \in (DOMAIN buf) \ {Head(nm)} |-> buf[k]],
               Append(lines, [name |-> Head(nm),
                              start |-> buf[Head(nm)][1],
                              length |-> buf[Head(nm)][2]]))
    ELSE [names |-> nm, index_buf |-> buf, outindex |-> lines]

\* line 270: what the diagnostic says: the record and the status
Msg(name, returncode) == [name |-> name, returncode |-> returncode]

\* ---------------------------------------------------------- apply: state

VARIABLES
    index_order,   \* --index-order
    on_error,      \* --on-error
    is_stdout,     \* line 247: no -d/-i, one combined stream
    jobs,          \* -j
    verbose,       \* line 235: not -q
    srcIndex,      \* the records of the source store
    srcText,       \* the lines of the source index file
    srcData,       \* the bytes of the source data file
    pc,            \* where the main thread of run_apply is
    ffindex,       \* line 251
    names,         \* line 252
    futures,       \* line 250: the arguments of each submitted task
    queue,         \* the executor's work queue: tasks not yet begun
    running,       \* the tasks a worker is executing
    result,        \* the results of the finished tasks
    completed,     \* the finished tasks, in the order they finished
    finished,      \* as_completed: finished before the loop began, not yet yielded
    pending,       \* as_completed: not finished when the loop began, not yet yielded
    waiter,        \* as_completed: waiter.finished_futures, in finishing order
    outOpen,       \* line 264: the outputs are open
    outdata,       \* the bytes written to outdata
    outindex,      \* the lines written to outindex
    offset,        \* line 265
    index_buf,     \* line 266
    stderr,        \* the diagnostics printed on sys.stderr
    printed,       \* the names printed on sys.stdout (line 278)
    raised,        \* the exception that ended run_apply, <<>> if none
    rx,            \* the state of run_reindex
    fa,            \* the state of run_from_fasta
    gt             \* the state of run_get

cfgVars == <<index_order, on_error, is_stdout, jobs, verbose, srcIndex, srcText, srcData>>
toolVars == <<rx, fa, gt>>
poolVars == <<queue, running, result, completed>>
loopVars == <<finished, pending, waiter>>
outVars == <<outOpen, outdata, outindex, offset, index_buf, stderr, printed>>
applyVars == <<cfgVars, pc, ffindex, names, futures, poolVars, loopVars, outVars, raised>>
vars == <<toolVars, cfgVars, pc, ffindex, names, futures, poolVars, loopVars, outVars, raised>>

Tasks == 1..Len(futures)
Done == DOMAIN result
\* the tasks whose external program has been started
Started == running \cup Done

\* a program that is not the one running
Idle == [pc |-> "idle"]

Init ==
    /\ rx = Idle
    /\ fa = Idle
    /\ gt = Idle
    /\ index_order \in IndexOrders
    /\ on_error \in OnErrors
    /\ is_stdout \in BOOLEAN
    /\ jobs \in 1..MaxJobs
    \* the names printed matter where they share the stream with the payloads
    /\ verbose \in (IF is_stdout THEN BOOLEAN ELSE {TRUE})
    /\ \E n \in 0..MaxRec : \E ns \in Arrangements(NameSet, n) :
          /\ srcIndex = StoreIndex(ns, 0)
          /\ srcData = StoreData(ns)
    /\ \/ srcText = FormatLines(srcIndex)
       \/ \E k \in 1..Len(srcIndex) : \E kind \in DamageKinds :
             srcText = Damaged(FormatLines(srcIndex), k, kind)
    /\ pc = "validate"
    /\ ffindex = <<>>
    /\ names = <<>>
    /\ futures = <<>>
    /\ queue = <<>>
    /\ running = {}
    /\ result = <<>>
    /\ completed = <<>>
    /\ finished = {}
    /\ pending = {}
    /\ waiter = <<>>
    /\ outOpen = FALSE
    /\ outdata = <<>>
    /\ outindex = <<>>
    /\ offset = 0
    /\ index_buf = <<>>
    /\ stderr = <<>>
    /\ printed = <<>>
    /\ raised = <<>>

\* --------------------------------------------------- apply: main thread

\* lines 244-245
Validate ==
    /\ pc = "validate"
    /\ IF Incompatible(index_order, on_error)
       THEN /\ pc' = "rejected"
            /\ raised' = <<"ValueError", "incompatible">>
       ELSE /\ pc' = "read_index"
            /\ raised' = raised
    /\ UNCHANGED <<toolVars, cfgVars, ffindex, names, futures, poolVars, loopVars, outVars>>

\* lines 249-258: the pool is created, the whole index is read, names sorted;
\* on a malformed line read_ffindex raises and the executor is shut down
ReadIndex ==
    /\ pc = "read_index"
    /\ LET recs == ParsedLines(srcText)
           whole == Len(recs) = Len(srcText)
       IN
       /\ ffindex' = [nm \in {recs[i].name : i \in 1..Len(recs)} |->
                        LET i == CHOOSE j \in 1..Len(recs) :
                                    /\ recs[j].name = nm
                                    /\ \A k \in (j + 1)..Len(recs) : recs[k].name # nm
                        IN <<recs[i].start, recs[i].length>>]
       /\ names' = IF whole
                   THEN TargetNames([i \in 1..Len(recs) |-> recs[i].name], index_order)
                   ELSE [i \in 1..Len(recs) |-> recs[i].name]
       /\ pc' = IF whole THEN "submit" ELSE "shutdown"
       /\ raised' = IF whole THEN raised ELSE <<"ValueError", ParseError(Len(recs) + 1)>>
    /\ UNCHANGED <<toolVars, cfgVars, futures, poolVars, loopVars, outVars>>

\* lines 259-261: one executor.submit
Submit ==
    /\ pc = "submit"
    /\ Len(futures) < Len(names)
    /\ LET name == names[Len(futures) + 1] IN
         futures' = Append(futures, [name |-> name,
                                     start |-> ffindex[name][1],
                                     length |-> ffindex[name][2]])
    /\ queue' = Append(queue, Len(futures) + 1)
    /\ UNCHANGED <<toolVars, cfgVars, pc, ffindex, names, running, result, completed, loopVars,
                   outVars, raised>>

\* line 264: the outputs are opened (created or truncated), lines 265-266
OpenOutputs ==
    /\ pc = "submit"
    /\ Len(futures) = Len(names)
    /\ outOpen' = TRUE
    /\ outdata' = <<>>
    /\ outindex' = <<>>
    /\ offset' = 0
    /\ index_buf' = <<>>
    /\ pc' = "as_completed"
    /\ UNCHANGED <<toolVars, cfgVars, ffindex, names, futures, poolVars, loopVars, stderr, printed, raised>>

\* line 267, first step of as_completed: the futures already finished are set
\* apart (as a set), a waiter is installed on the others
AsCompleted ==
    /\ pc = "as_completed"
    /\ finished' = Done
    /\ pending' = Tasks \ Done
    /\ waiter' = <<>>
    /\ pc' = "loop"
    /\ UNCHANGED <<toolVars, cfgVars, ffindex, names, futures, poolVars, outVars, raised>>

\* lines 268-292: the body of the loop for the future t that as_completed yields
Body(t) ==
    LET r == result[t]
        length == RecordLength(r.data_out)
        d == Drain(names, BufPut(index_buf, r.name, offset, length), outindex)
    IN
    IF IsFatal(r.returncode, on_error)
    THEN \* line 272: the outputs are closed, the executor is shut down
         /\ raised' = <<"ValueError", Msg(r.name, r.returncode)>>
         /\ pc' = "shutdown"
         /\ outOpen' = FALSE
         /\ UNCHANGED <<names, outdata, outindex, offset, index_buf, stderr, printed>>
    ELSE /\ stderr' = IF IsFailure(r.returncode)
                      THEN Append(stderr, Msg(r.name, r.returncode))
                      ELSE stderr
         /\ UNCHANGED <<raised, pc, outOpen>>
         /\ IF IsDropped(r.returncode, on_error)
            THEN \* line 276
                 UNCHANGED <<names, outdata, outindex, offset, index_buf, printed>>
            ELSE \* lines 277-278
                 /\ printed' = IF verbose THEN Append(printed, r.name) ELSE printed
                 /\ IF is_stdout
                    THEN \* line 280
                          /\ outdata' = outdata \o r.data_out
                          /\ UNCHANGED <<names, outindex, offset, index_buf>>
                    ELSE \* lines 282-292
                          /\ outdata' = outdata \o r.data_out \o <<Sentinel>>
                          /\ offset' = offset + length
                          /\ IF index_order # "data"
                             THEN /\ names' = d.names
                                  /\ index_buf' = d.index_buf
                                  /\ outindex' = d.outindex
                             ELSE /\ outindex' = Append(outindex, [name |-> r.name,
                                                                   start |-> offset,
                                                                   length |-> length])
                                  /\ UNCHANGED <<names, index_buf>>

\* as_completed yields a future that had finished before the loop began: these
\* are kept in a set, so they come in no particular order
ConsumeFinished ==
    /\ pc = "loop"
    /\ \E t \in finished :
         /\ finished' = finished \ {t}
         /\ Body(t)
    /\ UNCHANGED <<toolVars, cfgVars, ffindex, futures, poolVars, pending, waiter>>

\* as_completed yields the futures that finish later in finishing order
ConsumeWaited ==
    /\ pc = "loop"
    /\ finished = {}
    /\ waiter # <<>>
    /\ waiter' = Tail(waiter)
    /\ pending' = pending \ {Head(waiter)}
    /\ Body(Head(waiter))
    /\ UNCHANGED <<toolVars, cfgVars, ffindex, futures, poolVars, finished>>

\* line 293, then the outputs are closed and the executor is shut down
FinalAssert ==
    /\ pc = "loop"
    /\ finished = {}
    /\ pending = {}
    /\ raised' = IF index_buf = <<>> THEN raised ELSE <<"AssertionError", "index_buf">>
    /\ outOpen' = FALSE
    /\ pc' = "shutdown"
    /\ UNCHANGED <<toolVars, cfgVars, ffindex, names, futures, poolVars, loopVars,
                   outdata, outindex, offset, index_buf, stderr, printed>>

\* Executor.__exit__: shutdown(wait = True) returns when the workers have
\* emptied the queue
Shutdown ==
    /\ pc = "shutdown"
    /\ queue = <<>>
    /\ running = {}
    /\ pc' = "exited"
    /\ UNCHANGED <<toolVars, cfgVars, ffindex, names, futures, poolVars, loopVars, outVars, raised>>

\* ------------------------------------------------------ apply: workers

\* a worker thread takes the next work item: apply_to_record begins, the
\* external program is started (line 187)
WorkerStart ==
    /\ queue # <<>>
    /\ Cardinality(running) < jobs
    /\ running' = running \cup {Head(queue)}
    /\ queue' = Tail(queue)
    /\ UNCHANGED <<toolVars, cfgVars, pc, ffindex, names, futures, result, completed, loopVars,
                   outVars, raised>>

\* lines 184-191: the program ends with some status and output; the future is
\* finished and the waiter of as_completed, if installed, is told
WorkerFinish ==
    \E t \in running : \E rc \in ReturnCodes : \E out \in ProgOutputs :
        LET a == futures[t]
            record == ReadAt(srcData, a.start, a.length - 1)
            r == [name |-> a.name,
                  data_out |-> DataOut(rc, out, record, on_error = "original"),
                  returncode |-> rc]
        IN
        /\ running' = running \ {t}
        /\ result' = [k \in Done \cup {t} |-> IF k = t THEN r ELSE result[k]]
        /\ completed' = Append(completed, t)
        /\ waiter' = IF pc = "loop" /\ t \in pending THEN Append(waiter, t) ELSE waiter
        /\ UNCHANGED <<toolVars, cfgVars, pc, ffindex, names, futures, queue, finished, pending,
                       outVars, raised>>

Next ==
    \/ Validate
    \/ ReadIndex
    \/ Submit
    \/ OpenOutputs
    \/ AsCompleted
    \/ ConsumeFinished
    \/ ConsumeWaited
    \/ FinalAssert
    \/ Shutdown
    \/ WorkerStart
    \/ WorkerFinish

Spec == Init /\ [][Next]_vars

\* ------------------------------------------------ what the claims speak of

\* the names of the source index, in its order
SrcNames == [i \in 1..Len(srcIndex) |-> srcIndex[i].name]

\* the names of the index lines written so far
Emitted == [i \in 1..Len(outindex) |-> outindex[i].name]

\* the tasks whose result the loop of line 267 has taken
Consumed ==
    IF pc \in {"loop", "shutdown", "exited"} THEN Tasks \ (finished \cup pending) ELSE {}

\* run_apply has returned, or is about to, without an exception
FinishedOk == pc \in {"shutdown", "exited"} /\ raised = <<>>

\* the bytes an index line addresses in the output data
Span(l) == SubSeq(outdata, l.start + 1, l.start + l.length)

\* two index lines address bytes in common
Overlap(l, m) == l.start < m.start + m.length /\ m.start < l.start + l.length

\* the program of a record ended with exit status 0, with an exit status > 0
ExitedZero(returncode) == returncode = 0
ExitedNonZero(returncode) == returncode > 0

\* ------------------------------------------------------------------- C1

\* C1: in store mode every index line written so far addresses a span that
\* lies within the bytes already written to the output data, that span is the
\* payload chosen for the line's record followed by one sentinel, its length is
\* len(payload) + 1, and no two lines address bytes in common.
C1_IndexLinesAddressWrittenSpans ==
    ~is_stdout =>
        /\ \A i \in 1..Len(outindex) :
             LET l == outindex[i] IN
             /\ l.start >= 0
             /\ l.start + l.length <= Len(outdata)
             /\ \E t \in Done :
                  /\ result[t].name = l.name
                  /\ l.length = Len(result[t].data_out) + 1
                  /\ Span(l) = result[t].data_out \o <<Sentinel>>
        /\ \A i, j \in 1..Len(outindex) : i # j => ~Overlap(outindex[i], outindex[j])

\* C1 witness: under keep or sort two lines have been written whose records
\* finished in the other order, the second with a non-empty payload
C1_Witness ==
    /\ ~is_stdout
    /\ index_order # "data"
    /\ Len(outindex) >= 2
    /\ outindex[1].start > outindex[2].start
    /\ outindex[2].length > 1

\* ------------------------------------------------------------------- C2

\* a is sorted ascending without repetition
Ascending(a) == \A i, j \in 1..Len(a) : i < j => StrLess(a[i], a[j])

\* C2: under keep (sort) with an error policy other than ignore, the names of
\* the index lines written so far are a prefix of the source index order (of
\* the names in ascending order), and all of it once the run has finished.
C2_EmittedIsPrefixOfTargetOrder ==
    (~is_stdout /\ on_error # "ignore") =>
        /\ index_order = "keep" =>
             /\ Len(Emitted) <= Len(SrcNames)
             /\ Emitted = SubSeq(SrcNames, 1, Len(Emitted))
        /\ index_order = "sort" =>
             /\ Ascending(Emitted)
             /\ \A i \in 1..Len(Emitted) : \E k \in 1..Len(SrcNames) : SrcNames[k] = Emitted[i]
             /\ \A k \in 1..Len(SrcNames) :
                  (\E i \in 1..Len(Emitted) : StrLess(SrcNames[k], Emitted[i]))
                      => \E i \in 1..Len(Emitted) : Emitted[i] = SrcNames[k]
        /\ (index_order # "data" /\ FinishedOk) => Len(Emitted) = Len(SrcNames)

\* C2 witness: records b, a, ab under sort, all three lines written, the
\* first-written line not being the first-written record
C2_Witness ==
    /\ ~is_stdout
    /\ index_order = "sort"
    /\ on_error # "ignore"
    /\ FinishedOk
    /\ SrcNames = <<<<98>>, <<97>>, <<97, 98>>>>
    /\ Emitted = <<<<97>>, <<97, 98>>, <<98>>>>
    /\ outindex[1].start > 0

\* ------------------------------------------------------------------- C3

\* C3: when every task has been consumed and no result was fatal, index_buf is
\* empty: the assertion of line 293 does not fail.
C3_BufferEmptyAtEnd ==
    /\ (pc = "loop" /\ finished = {} /\ pending = {}) => index_buf = <<>>
    /\ ~(raised # <<>> /\ raised[1] = "AssertionError")

\* ------------------------------------------------------------------- C4

\* the bytes the consumed tasks of S put in a store: payload and sentinel
RECURSIVE StoredBytes(_)
StoredBytes(S) ==
    IF S = {} THEN 0
    ELSE LET t == CHOOSE x \in S : TRUE
         IN Len(result[t].data_out) + 1 + StoredBytes(S \ {t})

\* the index lines written for a name
LinesOf(name) == {i \in 1..Len(outindex) : outindex[i].name = name}

\* C4: under ignore a record whose program fails gets no index line, puts no
\* byte in the output data and leaves the running offset alone, and once the
\* run has ended every record whose program succeeded has exactly one index
\* line.
C4_IgnoreDropsOnlyFailures ==
    (~is_stdout /\ on_error = "ignore") =>
        /\ \A t \in Consumed : ExitedNonZero(result[t].returncode) => LinesOf(result[t].name) = {}
        /\ offset = Len(outdata)
        /\ offset = StoredBytes({t \in Consumed : ~ExitedNonZero(result[t].returncode)})
        /\ pc \in {"shutdown", "exited"} =>
             \A t \in Tasks : ExitedZero(result[t].returncode)
                                  => Cardinality(LinesOf(result[t].name)) = 1

\* ------------------------------------------------------------------- C5

C7_NoNewWorkAfterFailure ==
    [][(on_error = "exit" /\ raised # <<>>) => Started' \subseteq Started]_vars

\* ------------------------------------------------------------------- C8

\* the diagnostics given so far: printed on stderr, or the message of the
\* exception that ended the run
Diagnostics ==
    {stderr[i] : i \in 1..Len(stderr)}
        \cup (IF Len(raised) = 2 /\ raised[1] = "ValueError" /\ pc # "rejected"
              THEN {raised[2]} ELSE {})

\* C8: every consumed result with a returncode other than 0 has its
\* diagnostic, naming the record and the status, and is not written as a
\* success.
C8_NonZeroIsFailure ==
    \A t \in Consumed :
        result[t].returncode # 0 =>
            Msg(result[t].name, result[t].returncode) \in Diagnostics

\* ------------------------------------------------------------------- C9

\* C9: with keep + ignore the run never gets past validation: it is rejected
\* with ValueError while the index is unread, no task is submitted or begun
\* and no output is open or written.
C9_KeepIgnoreRejectedBeforeWork ==
    (index_order = "keep" /\ on_error = "ignore") =>
        /\ pc \in {"validate", "rejected"}
        /\ pc = "rejected" => (raised # <<>> /\ raised[1] = "ValueError")
        /\ ffindex = <<>>
        /\ names = <<>>
        /\ futures = <<>>
        /\ queue = <<>>
        /\ Started = {}
        /\ ~outOpen
        /\ outdata = <<>>
        /\ outindex = <<>>

\* C9 witness: a non-empty input has been rejected
C9_Witness ==
    /\ pc = "rejected"
    /\ index_order = "keep"
    /\ on_error = "ignore"
    /\ Len(srcIndex) = MaxRec

\* ------------------------------------------------------------------ C10

\* C10: under data with one job and no record dropped, the i-th index line
\* names the i-th record of the source index.
C10_DataOrderWithOneJobIsSourceOrder ==
    (~is_stdout /\ index_order = "data" /\ jobs = 1 /\ on_error # "ignore") =>
        /\ Len(Emitted) <= Len(SrcNames)
        /\ Emitted = SubSeq(SrcNames, 1, Len(Emitted))

\* ------------------------------------------------------------------ C11

\* C11: in store mode the starts of the index lines written so far increase
\* strictly from each line to the next, and no two lines address bytes in
\* common.
C11_StartsIncreaseInLineOrder ==
    ~is_stdout =>
        /\ \A i, j \in 1..Len(outindex) : i < j => outindex[i].start < outindex[j].start
        /\ \A i, j \in 1..Len(outindex) : i # j => ~Overlap(outindex[i], outindex[j])

\* ------------------------------------------------------------------ C16

\* the entries held in index_buf
Buffered == Cardinality(DOMAIN index_buf)

\* C16 as stated: under keep or sort index_buf never holds more than J entries.
C16_BufferAtMostJobs ==
    (~is_stdout /\ index_order # "data") => Buffered <= jobs

\* C16 amended: under keep or sort index_buf never holds more entries than
\* there are records besides the one awaited at the head of names: at most
\* N - 1 for N >= 1 records, whatever J is.
C16_BufferBelowRecordCount ==
    (~is_stdout /\ index_order # "data") =>
        /\ Buffered <= Len(srcIndex)
        /\ Len(srcIndex) > 0 => Buffered <= Len(srcIndex) - 1
        /\ \A n \in DOMAIN index_buf : names # <<>> /\ n # Head(names)

\* C16 witness: with one job, two results wait in index_buf for the first name
C16_Witness ==
    /\ ~is_stdout
    /\ index_order # "data"
    /\ jobs = 1
    /\ Buffered = 2
    /\ Len(srcIndex) = 3


\* the payloads written by the tasks of S that were consumed and not dropped, in
\* the order in which the tasks finished
RECURSIVE PayloadsInOrder(_, _)
PayloadsInOrder(order, S) ==
    IF order = <<>> THEN <<>>
    ELSE (IF Head(order) \in S /\ ~IsDropped(result[Head(order)].returncode, on_error)
          THEN result[Head(order)].data_out ELSE <<>>)
         \o PayloadsInOrder(Tail(order), S)

\* C19: in combined-stream mode no index line is produced and what is given to
\* the standard output is exactly the payloads of the consumed records that
\* were not dropped, one after the other with no sentinel between them, in
\* the order in which their tasks completed, whatever the order policy.
C19_StreamIsPayloadsInCompletionOrder ==
    is_stdout =>
        /\ outindex = <<>>
        /\ printed = <<>>
        /\ outdata = PayloadsInOrder(completed, Consumed)


\* the source index holds a line that is not name, start, length
TextIsMalformed == srcText # FormatLines(srcIndex)

\* the first line of the source index that is not the line of its record
FirstDamaged ==
    CHOOSE k \in 1..Len(srcText) :
        /\ srcText[k] # FormatLines(srcIndex)[k]
        /\ \A i \in 1..(k - 1) : srcText[i] = FormatLines(srcIndex)[i]

\* C18: with a malformed line in the source index, no external program is ever
\* started, no task is submitted, the outputs are never opened or written, and
\* once the index has been read the run has failed in read_ffindex.
C18_MalformedIndexFailsBeforeAnyWork ==
    TextIsMalformed =>
        /\ Started = {} /\ futures = <<>> /\ queue = <<>>
        /\ ~outOpen /\ outdata = <<>> /\ outindex = <<>>
        /\ pc \notin {"submit", "as_completed", "loop"}
        /\ pc \in {"shutdown", "exited"} => raised = <<"ValueError", ParseError(FirstDamaged)>>

\* the run has ended on a third line that is malformed: the two lines before
\* it were read
C18_Witness ==
    /\ TextIsMalformed
    /\ Len(srcText) = 3
    /\ ~Malformed(srcText[1]) /\ ~Malformed(srcText[2])
    /\ pc = "exited"
    /\ DOMAIN ffindex = {srcIndex[1].name, srcIndex[2].name}


\* ------------------------------------------------------ apply: scheduling

\* the steps of the main thread of run_apply
MainThread ==
    \/ Validate
    \/ ReadIndex
    \/ Submit
    \/ OpenOutputs
    \/ AsCompleted
    \/ ConsumeFinished
    \/ ConsumeWaited
    \/ FinalAssert
    \/ Shutdown

\* the main thread runs when it can, an idle worker takes queued work, and
\* every external program that was started ends
\* the runs that write a store from a well-formed index of up to MaxRec records
\* whose names are not in ascending order, under every policy and pool size
FairInit ==
    /\ Init
    /\ srcText = FormatLines(srcIndex)
    /\ ~is_stdout
    /\ \E n \in 0..MaxRec : SrcNames = SubSeq(<<<<98>>, <<97>>, <<97, 98>>, <<99>>>>, 1, n)

FairSpec ==
    /\ FairInit /\ [][Next]_vars
    /\ WF_vars(MainThread)
    /\ WF_vars(WorkerStart)
    /\ WF_vars(WorkerFinish)

\* the run is over
Terminated == pc \in {"exited", "rejected"}

\* the run got as far as submitting its tasks: the arguments were accepted and
\* the index was well-formed
Worked == pc = "exited" /\ ~TextIsMalformed

\* no program of a consumed task exited with a status above zero
NoneFailed == \A t \in Consumed : ~ExitedNonZero(result[t].returncode)

\* every source record has a line in the output index
AllLinesEmitted == \A i \in 1..Len(srcIndex) : LinesOf(srcIndex[i].name) # {}

\* a finished task that the loop holds, whose result it has not taken yet
Waiting(t) == pc = "loop" /\ t \in Done /\ t \in (finished \cup pending)

FatalFailure == raised # <<>> /\ raised[1] = "ValueError"

MaxData == 4
MaxNamed == 7
MaxChunk == 3

\* a null byte, a newline, the marker #, the caret and a letter
Bytes == {0, 10, 35, 94, 102}
\* the bytes of records whose names are f, f^, ...
NameBytes == {0, 94, 102}

SeqsUpTo(S, n) == UNION {[1..k -> S] : k \in 0..n}

\* line 317 is 1 MB: the data files of the model are read in chunks of a few
\* bytes, so that chunk boundaries fall inside them
ChunkSizes == 1..MaxChunk

\* line 330: header.lstrip('#>')
RECURSIVE StripMarkers(_)
StripMarkers(header) ==
    IF header # <<>> /\ Head(header) \in {35, 62}
    THEN StripMarkers(Tail(header))
    ELSE header

\* a slip in lines 332-334: the caret is appended once, not until the name is new
CaretOnce(header, headers) ==
    IF header \in headers THEN header \o <<94>> ELSE header

\* lines 332-334: while header in headers: header += '^'
RECURSIVE Caret(_, _)
Caret(header, headers) ==
    IF header \in headers THEN Caret(header \o <<94>>, headers) ELSE header

\* a slip in line 340: the sentinel is not counted
AdvanceNoSentinel(offset0, record_length) == offset0 + record_length - 1

\* line 340: offset += record_length
Advance(offset0, record_length) == offset0 + record_length

\* lines 318-323: the variables of the scan
ScanStart ==
    [offset |-> 0, record_length |-> 1, index |-> 0, headers |-> {},
     in_header |-> TRUE, header |-> <<>>, out |-> <<>>, raised |-> <<>>]

\* lines 328-350: one byte of the chunk
ScanByte(st, byte, parse_names, allow_duplicates) ==
    IF byte = 0
    THEN LET stripped == StripMarkers(st.header)
             name == IF parse_names THEN Caret(stripped, st.headers) ELSE FormatInt(st.index)
         IN
         IF parse_names /\ stripped = <<>>
         THEN \* line 331
              [st EXCEPT !.header = stripped,
                         !.raised = <<"AssertionError", "Empty name">>]
         ELSE IF parse_names /\ stripped \in st.headers /\ ~allow_duplicates
         THEN \* line 333
              [st EXCEPT !.header = stripped,
                         !.raised = <<"AssertionError", "Duplicate name">>]
         ELSE \* lines 335-344
              [st EXCEPT !.headers = IF parse_names THEN st.headers \cup {name} ELSE st.headers,
                         !.out = Append(st.out, FormatLine(name, st.offset, st.record_length)),
                         !.offset = Advance(st.offset, st.record_length),
                         !.record_length = 1,
                         !.index = st.index + 1,
                         !.header = <<>>,
                         !.in_header = TRUE]
    ELSE \* lines 346-350
         LET in_header == st.in_header /\ ~(byte < 33) IN
         [st EXCEPT !.in_header = in_header,
                    !.header = IF parse_names /\ in_header THEN Append(st.header, byte) ELSE st.header,
                    !.record_length = st.record_length + 1]

\* lines 324-352 on a whole data file: the scan ends at the first assertion
\* that fails
RECURSIVE Scan(_, _, _, _)
Scan(st, bytes, parse_names, allow_duplicates) ==
    IF bytes = <<>> \/ st.raised # <<>> THEN st
    ELSE Scan(ScanByte(st, Head(bytes), parse_names, allow_duplicates), Tail(bytes),
              parse_names, allow_duplicates)

\* ------------------------------------------------------ reindex: the run

\* run_apply is not running
ApplyIdle ==
    /\ index_order = "data" /\ on_error = "exit" /\ is_stdout = FALSE /\ jobs = 1
    /\ verbose = FALSE /\ srcIndex = <<>> /\ srcText = <<>> /\ srcData = <<>>
    /\ pc = "idle" /\ ffindex = <<>> /\ names = <<>> /\ futures = <<>>
    /\ queue = <<>> /\ running = {} /\ result = <<>> /\ completed = <<>>
    /\ finished = {} /\ pending = {} /\ waiter = <<>>
    /\ outOpen = FALSE /\ outdata = <<>> /\ outindex = <<>> /\ offset = 0
    /\ index_buf = <<>> /\ stderr = <<>> /\ printed = <<>> /\ raised = <<>>

\* lines 311-323: the arguments, the data file, the variables of the scan
RxInit ==
    /\ ApplyIdle
    /\ fa = Idle
    /\ gt = Idle
    /\ \E p \in BOOLEAN, r \in BOOLEAN, c \in ChunkSizes :
       \E d \in SeqsUpTo(Bytes, MaxData) \cup SeqsUpTo(NameBytes, MaxNamed) :
          rx = [pc |-> "scan", parse_names |-> p, allow_duplicates |-> r, chunk_size |-> c,
                data |-> d, pos |-> 0, chunk |-> <<>>, st |-> ScanStart]

\* lines 325-326, 351-352: the next chunk is read; an empty one ends the scan
RxRead ==
    /\ rx.pc = "scan"
    /\ rx.chunk = <<>>
    /\ LET last == IF rx.pos + rx.chunk_size < Len(rx.data)
                   THEN rx.pos + rx.chunk_size ELSE Len(rx.data)
           chunk == SubSeq(rx.data, rx.pos + 1, last)
       IN rx' = [rx EXCEPT !.chunk = chunk,
                           !.pos = last,
                           !.pc = IF chunk = <<>> THEN "done" ELSE "scan"]
    /\ UNCHANGED <<applyVars, fa, gt>>

\* lines 327-350: the next byte of the chunk; a failed assertion ends the run
RxByte ==
    /\ rx.pc = "scan"
    /\ rx.chunk # <<>>
    /\ LET st == ScanByte(rx.st, Head(rx.chunk), rx.parse_names, rx.allow_duplicates) IN
         rx' = [rx EXCEPT !.st = st,
                          !.chunk = Tail(rx.chunk),
                          !.pc = IF st.raised # <<>> THEN "failed" ELSE "scan"]
    /\ UNCHANGED <<applyVars, fa, gt>>

RxNext ==
    \/ RxRead
    \/ RxByte

SpecReindex == RxInit /\ [][RxNext]_vars

\* ------------------------------------------------------ reindex: claims

\* the bytes of the data file that the scan has been through
Scanned == SubSeq(rx.data, 1, rx.pos - Len(rx.chunk))

\* the positions of the sentinels in d, from 1
Zeros(d) == {i \in 1..Len(d) : d[i] = Sentinel}

LineStart(line) == ParseInt(line[2])
LineLength(line) == ParseInt(line[3])

\* C12: without name parsing, the lines written are one per sentinel scanned so
\* far, named 0, 1, 2, ...; the first starts at 0, each next one where the one
\* before ends, and each ends on its sentinel with no sentinel before it:
\* whatever the chunk size, and with no line for bytes after the last sentinel.
C12_OneLinePerSentinel ==
    (rx.pc \in {"scan", "done"} /\ ~rx.parse_names) =>
        LET lines == rx.st.out IN
        /\ rx.st.raised = <<>>
        /\ Len(lines) = Cardinality(Zeros(Scanned))
        /\ rx.pc = "done" => Scanned = rx.data
        /\ \A k \in 1..Len(lines) :
             /\ Len(lines[k]) = 3
             /\ lines[k][1] = FormatInt(k - 1)
             /\ LineStart(lines[k]) =
                    IF k = 1 THEN 0 ELSE LineStart(lines[k - 1]) + LineLength(lines[k - 1])
             /\ LineStart(lines[k]) + LineLength(lines[k]) \in Zeros(rx.data)
             /\ \A i \in (LineStart(lines[k]) + 1)..(LineStart(lines[k]) + LineLength(lines[k]) - 1) :
                    i \notin Zeros(rx.data)

\* a file of two records and bytes after the second sentinel has been scanned
\* in chunks that end inside a record
C12_Witness ==
    /\ rx.pc = "done" /\ ~rx.parse_names
    /\ rx.data = <<102, 94, 0, 102, 0, 94>>
    /\ rx.chunk_size = 2
    /\ Len(rx.st.out) = 2


\* the payloads of the records of d that end with a sentinel, in file order
RECURSIVE RecordsOf(_, _)
RecordsOf(d, cur) ==
    IF d = <<>> THEN <<>>
    ELSE IF Head(d) = Sentinel THEN <<cur>> \o RecordsOf(Tail(d), <<>>)
    ELSE RecordsOf(Tail(d), Append(cur, Head(d)))

\* the bytes of a payload before its first byte below 33
RECURSIVE Token(_)
Token(payload) ==
    IF payload = <<>> \/ Head(payload) < 33 THEN <<>>
    ELSE <<Head(payload)>> \o Token(Tail(payload))

\* the name derived from a payload: its leading token without leading # and >
RECURSIVE Derived(_)
Derived(payload) ==
    LET t == Token(payload) IN
    IF t # <<>> /\ t[1] \in {35, 62}
    THEN Derived(Tail(payload))
    ELSE t

Carets(n) == [i \in 1..n |-> 94]

\* the names of the lines written before line k
NamesBefore(lines, k) == {lines[i][1] : i \in 1..(k - 1)}

\* C14: with name parsing the names of the lines written are pairwise distinct.
\* With renaming disabled each line bears the name derived from its record,
\* and a record whose derived name was written before ends the run with no
\* line for it. With renaming enabled no run ends on a duplicate: each line
\* bears its derived name followed by the least number of carets that makes
\* it new. A record with an empty derived name ends the run in both cases.
C14_ParsedNamesAreDistinct ==
    (rx.pc # "idle" /\ rx.parse_names) =>
        LET lines == rx.st.out
            recs == RecordsOf(Scanned, <<>>)
            failed == rx.pc = "failed"
        IN
        /\ \A i, j \in 1..Len(lines) : i # j => lines[i][1] # lines[j][1]
        /\ Len(recs) = Len(lines) + (IF failed THEN 1 ELSE 0)
        /\ failed <=> rx.st.raised # <<>>
        /\ failed =>
             LET d == Derived(recs[Len(recs)]) IN
             \/ d = <<>> /\ rx.st.raised[2] = "Empty name"
             \/ /\ d # <<>> /\ ~rx.allow_duplicates /\ rx.st.raised[2] = "Duplicate name"
                /\ d \in NamesBefore(lines, Len(lines) + 1)
        /\ \A k \in 1..Len(lines) :
             LET d == Derived(recs[k]) IN
             /\ d # <<>>
             /\ \E n \in 0..(k - 1) :
                  /\ lines[k][1] = d \o Carets(n)
                  /\ \A m \in 0..(n - 1) : (d \o Carets(m)) \in NamesBefore(lines, k)
                  /\ ~rx.allow_duplicates => n = 0

\* with renaming enabled the records f, f^ and f have been scanned: the third
\* is written as f^^, since f^ is the name of the second
C14_Witness ==
    /\ rx.pc = "done" /\ rx.parse_names /\ rx.allow_duplicates
    /\ rx.data = <<102, 0, 102, 94, 0, 102, 0>>
    /\ Len(rx.st.out) = 3
    /\ rx.st.out[3][1] = <<102, 94, 94>>

\* with renaming disabled the run has ended on a second record named f, after
\* one line
C14_WitnessFatal ==
    /\ rx.pc = "failed" /\ rx.parse_names /\ ~rx.allow_duplicates
    /\ rx.st.raised[2] = "Duplicate name"
    /\ Len(rx.st.out) = 1


\* the (start, length) pairs of the lines of an index, with their number
PairsOf(recs) == [p \in {<<recs[i].start, recs[i].length>> : i \in 1..Len(recs)} |->
                     Cardinality({i \in 1..Len(recs) : <<recs[i].start, recs[i].length>> = p})]

\* what the scan of run_reindex without name parsing writes for the bytes d
Reindexed(d) == ParsedLines(Scan(ScanStart, d, FALSE, FALSE).out)

\* C13: when apply has written a store, reindexing the data file it wrote
\* without name parsing gives as many records as the index it wrote has lines,
\* with the same (start, length) pairs.
C13_ReindexGivesWrittenSpans ==
    (FinishedOk /\ ~is_stdout) => PairsOf(Reindexed(outdata)) = PairsOf(outindex)


\* ------------------------------------------------------ get: pure parts

MaxEntries == 2

\* a name that no record of the source store bears
MissingName == <<122>>

\* line 111: the tuple (None, None, None) of an entry not found
NoneEntry == [none |-> TRUE]
IsNone(e) == "none" \in DOMAIN e

\* str(None)
NoneText == <<78, 111, 110, 101>>

\* line 139: f"{name}\t{offset}\t{length}\n" for an entry of found
FoundLine(e) ==
    IF IsNone(e) THEN <<NoneText, NoneText, NoneText>>
    ELSE FormatLine(e.name, e.offset, e.length)

Range(s) == {s[i] : i \in 1..Len(s)}

\* line 124: entries.index(needle), from 1
IndexOf(s, x) == CHOOSE i \in 1..Len(s) : s[i] = x /\ \A j \in 1..(i - 1) : s[j] # x

\* lines 115, 118: found, the bytes written to data_out, offset
GetStart(entries) ==
    [found |-> [i \in 1..Len(entries) |-> NoneEntry], data_out |-> <<>>, offset |-> 0]

\* lines 119-131: one line of the source index, the index-th from 0
GetStep(g, index, rec, entries, use_index, len_subtract, data) ==
    LET needle == IF use_index THEN index ELSE rec.name
        e == [name |-> rec.name, offset |-> g.offset, length |-> rec.length]
    IN
    IF entries # <<>> /\ needle \notin Range(entries)
    THEN g
    ELSE [found |-> IF entries # <<>>
                    THEN [g.found EXCEPT ![IndexOf(entries, needle)] = e]
                    ELSE Append(g.found, e),
          data_out |-> g.data_out \o ReadAt(data, rec.start, rec.length + len_subtract),
          offset |-> g.offset + rec.length]

\* lines 119-131 on the lines of the source index from the k-th on
RECURSIVE GetLoop(_, _, _, _, _, _, _)
GetLoop(g, k, recs, entries, use_index, len_subtract, data) ==
    IF k > Len(recs) THEN g
    ELSE GetLoop(GetStep(g, k - 1, recs[k], entries, use_index, len_subtract, data),
                 k + 1, recs, entries, use_index, len_subtract, data)

\* ------------------------------------------------------ get: the run

\* lines 79-116 of a run that writes a store (-d and -i): a source store, the
\* entries asked for by name or by position, --ignore-missing or not
GtInit ==
    /\ ApplyIdle
    /\ rx = Idle
    /\ fa = Idle
    /\ \E n \in 0..MaxRec : \E ns \in Arrangements(NameSet, n) :
       \E use_index \in BOOLEAN, ignore_missing \in BOOLEAN :
       \E m \in (IF use_index THEN 1 ELSE 0)..MaxEntries :
       \E entries \in Arrangements(IF use_index THEN 0..MaxRec ELSE NameSet \cup {MissingName}, m) :
          gt = [pc |-> "loop", use_index |-> use_index, ignore_missing |-> ignore_missing,
                entries |-> entries,
                index |-> ParsedLines(FormatLines(StoreIndex(ns, 0))),
                data |-> StoreData(ns),
                i |-> 0, g |-> GetStart(entries), index_out |-> <<>>, raised |-> <<>>]

\* lines 119-131: the next line of the source index
GtRecord ==
    /\ gt.pc = "loop"
    /\ gt.i < Len(gt.index)
    /\ gt' = [gt EXCEPT !.g = GetStep(gt.g, gt.i, gt.index[gt.i + 1], gt.entries,
                                      gt.use_index, 0, gt.data),
                        !.i = gt.i + 1]
    /\ UNCHANGED <<applyVars, rx, fa>>

\* lines 132-135: the files are closed; without --ignore-missing an entry not
\* found ends the run
GtCheckMissing ==
    /\ gt.pc = "loop"
    /\ gt.i = Len(gt.index)
    /\ LET missing == {i \in 1..Len(gt.g.found) : IsNone(gt.g.found[i])} IN
         gt' = IF ~gt.ignore_missing /\ missing # {}
               THEN [gt EXCEPT !.pc = "failed",
                               !.raised = <<"ValueError", gt.entries[CHOOSE i \in missing :
                                                \A j \in missing : i <= j]>>]
               ELSE [gt EXCEPT !.pc = "write_index"]
    /\ UNCHANGED <<applyVars, rx, fa>>

\* lines 136-139: the output index is written
GtWriteIndex ==
    /\ gt.pc = "write_index"
    /\ gt' = [gt EXCEPT !.pc = "done",
                        !.index_out = [i \in 1..Len(gt.g.found) |-> FoundLine(gt.g.found[i])]]
    /\ UNCHANGED <<applyVars, rx, fa>>

GtNext ==
    \/ GtRecord
    \/ GtCheckMissing
    \/ GtWriteIndex

SpecGet == GtInit /\ [][GtNext]_vars

\* ------------------------------------------------------ get: claims

\* the entries asked for that the source store holds
Present ==
    {i \in 1..Len(gt.entries) :
        \E k \in 1..Len(gt.index) :
            (IF gt.use_index THEN k - 1 ELSE gt.index[k].name) = gt.entries[i]}

\* C20: when get has written an output index, each of its lines is a name, a
\* start and a length of a record of the source store that was found, start
\* and length address the copy of that record with its sentinel in the output
\* data, and there are as many lines as entries found (as records in the
\* source when no entry is asked for): an entry that is missing gives no line.
C20_OutputIndexLinesAreFoundRecords ==
    gt.pc = "done" =>
        /\ Len(gt.index_out) =
               IF gt.entries = <<>> THEN Len(gt.index) ELSE Cardinality(Present)
        /\ \A k \in 1..Len(gt.index_out) :
             LET line == gt.index_out[k] IN
             /\ Len(line) = 3 /\ IsIntText(line[2]) /\ IsIntText(line[3])
             /\ \E j \in 1..Len(gt.index) :
                  /\ gt.index[j].name = line[1]
                  /\ ReadAt(gt.g.data_out, ParseInt(line[2]), ParseInt(line[3]))
                         = SrcPayload(line[1]) \o <<Sentinel>>


\* ------------------------------------------------------ from_fasta: pure parts

MaxLines == 3

\* the lines >a, >a followed by a blank, >b x, a bare >, ac and an empty line,
\* each with its newline
FastaLines ==
    {<<62, 97, 10>>, <<62, 97, 32, 10>>, <<62, 98, 32, 120, 10>>, <<62, 10>>,
     <<97, 99, 10>>, <<10>>}

\* the characters str.rstrip and str.split take for whitespace, of those in the model
IsSpace(c) == c \in {9, 10, 32}

\* line 49: str.rstrip()
RECURSIVE RStrip(_)
RStrip(s) ==
    IF s # <<>> /\ IsSpace(s[Len(s)]) THEN RStrip(SubSeq(s, 1, Len(s) - 1)) ELSE s

RECURSIVE LStrip(_)
LStrip(s) == IF s # <<>> /\ IsSpace(Head(s)) THEN LStrip(Tail(s)) ELSE s

RECURSIVE UpToSpace(_)
UpToSpace(s) ==
    IF s = <<>> \/ IsSpace(Head(s)) THEN <<>> ELSE <<Head(s)>> \o UpToSpace(Tail(s))

\* line 50: header.split(), which is empty for a header of whitespace only
HasToken(header) == LStrip(header) # <<>>
\* header.split()[0]
FirstToken(header) == UpToSpace(LStrip(header))

\* line 374: f'>{header}\n{seq}\0'
FastaRecord(header, seq) == <<62>> \o header \o <<10>> \o seq \o <<Sentinel>>

\* lines 43, 372: the variables of read_fasta and of the writer
FastaStart ==
    [seq |-> <<>>, name |-> <<>>, header |-> <<>>, ffdata |-> <<>>, ffindex |-> <<>>,
     offset |-> 0, raised |-> <<>>]

\* lines 373-378: a record yielded by read_fasta is written
FastaWrite(f) ==
    LET bytes == FastaRecord(f.header, f.seq) IN
    [f EXCEPT !.ffdata = f.ffdata \o bytes,
              !.ffindex = Append(f.ffindex, FormatLine(f.name, f.offset, Len(bytes))),
              !.offset = f.offset + Len(bytes)]

\* lines 44-52: one line of the input, with the record it makes read_fasta yield
FastaLine(f, line) ==
    IF line[1] = 62
    THEN LET w == IF f.seq # <<>> THEN FastaWrite(f) ELSE f
             header == RStrip(Tail(line))
         IN
         IF HasToken(header)
         THEN [w EXCEPT !.seq = <<>>, !.header = header, !.name = FirstToken(header)]
         ELSE \* line 50: IndexError
              [w EXCEPT !.seq = <<>>, !.header = header, !.raised = <<"IndexError", "split">>]
    ELSE [f EXCEPT !.seq = f.seq \o line]

\* lines 53-54: the end of the input
FastaEnd(f) == IF f.seq # <<>> THEN FastaWrite(f) ELSE f

\* ------------------------------------------------------ from_fasta: the run

FaInit ==
    /\ ApplyIdle
    /\ rx = Idle
    /\ gt = Idle
    /\ \E lines \in SeqsUpTo(FastaLines, MaxLines) :
          fa = [pc |-> "read", lines |-> lines, i |-> 0, f |-> FastaStart]

\* lines 44-52, 373-378: the next line of the input
FaLine ==
    /\ fa.pc = "read"
    /\ fa.i < Len(fa.lines)
    /\ LET f == FastaLine(fa.f, fa.lines[fa.i + 1]) IN
         fa' = [fa EXCEPT !.f = f,
                          !.i = fa.i + 1,
                          !.pc = IF f.raised # <<>> THEN "failed" ELSE "read"]
    /\ UNCHANGED <<applyVars, rx, gt>>

\* lines 53-54, then the files are closed
FaEnd ==
    /\ fa.pc = "read"
    /\ fa.i = Len(fa.lines)
    /\ fa' = [fa EXCEPT !.f = FastaEnd(fa.f), !.pc = "done"]
    /\ UNCHANGED <<applyVars, rx, gt>>

FaNext ==
    \/ FaLine
    \/ FaEnd

SpecFasta == FaInit /\ [][FaNext]_vars

\* ------------------------------------------------------ from_fasta: claims

\* the records of a FASTA text: each header line with the lines that follow it
\* up to the next header line
RECURSIVE InputRecords(_, _)
InputRecords(lines, cur) ==
    IF lines = <<>> THEN (IF cur = <<>> THEN <<>> ELSE <<cur>>)
    ELSE IF Head(lines)[1] = 62
         THEN (IF cur = <<>> THEN <<>> ELSE <<cur>>) \o InputRecords(Tail(lines), <<Head(lines)>>)
         ELSE InputRecords(Tail(lines), IF cur = <<>> THEN <<>> ELSE Append(cur, Head(lines)))

RECURSIVE Flatten(_)
Flatten(ls) == IF ls = <<>> THEN <<>> ELSE Head(ls) \o Flatten(Tail(ls))

\* what get prints for the entry name of the store written (stdout mode)
Extracted(name) ==
    GetLoop(GetStart(<<name>>), 1, ParsedLines(fa.f.ffindex), <<name>>, FALSE, -1,
            fa.f.ffdata).data_out

\* C15: once a FASTA text is imported, get of the name of each of its records
\* prints the bytes of that record as they stand in the text.
C15_ImportThenGetGivesRecords ==
    fa.pc \in {"done", "failed"} =>
        /\ fa.pc = "done"
        /\ \A k \in 1..Len(InputRecords(fa.lines, <<>>)) :
             LET rec == InputRecords(fa.lines, <<>>)[k] IN
             Extracted(FirstToken(Tail(rec[1]))) = Flatten(rec)

====
